---- MODULE Spec2Model ----
(***************************************************************************)
(* yamlconf: a Manager keeps one in-memory Config in step with a YAML file *)
(* on disk.  All mutation goes through the goroutine running               *)
(* processUpdates; Update callers hand it deltas over deltasCh and Next    *)
(* callers receive every accepted change over nextCfgCh.                   *)
(*                                                                         *)
(* The Config of the model is the TestCfg of the repository's test:        *)
(* {Version int; N *Nested{S string; I int}}.                              *)
(***************************************************************************)
EXTENDS Integers, Sequences, FiniteSets, TLC

\* ------------------------------------------------------------- bounds
\* Number of Update calls made in a run.
MaxUpdates == 2
\* Number of Update calls made in a run whose deltas all increment.
MaxIncCalls == 3

\* ------------------------------------------------------------- program constants
FIXED_I == 55

\* ------------------------------------------------------------- values
\* The nil error.
Nil == "nil"

\* A *Nested that is nil.
NilN == [nil |-> TRUE, S |-> "", I |-> 0]

\* &Nested{S: s, I: i}
Nested(s, i) == [nil |-> FALSE, S |-> s, I |-> i]

\* &TestCfg{Version: v, N: n}
TestCfg(v, n) == [Version |-> v, N |-> n]

\* m.cfg before any configuration has been stored: the nil interface value.
NilConfig == [nil |-> TRUE]

\* Manager.EmptyConfig of the test: func() Config { return &TestCfg{} }
EmptyConfig == TestCfg(0, NilN)

\* A GetVersion that reads nothing.
GetVersionZero(c) == 0

\* TestCfg.GetVersion
GetVersion(c) == c.Version

\* TestCfg.SetVersion
SetVersion(c, v) == [c EXCEPT !.Version = v]

\* An ApplyDefaults that allocates N and forgets the default of I.
ApplyDefaultsNoI(c) ==
    [c EXCEPT !.N = IF c.N.nil THEN Nested("", 0) ELSE c.N]

\* TestCfg.ApplyDefaults: a nil N becomes &Nested{}, then a zero I becomes
\* FIXED_I.
ApplyDefaults(c) ==
    LET n1 == IF c.N.nil THEN Nested("", 0) ELSE c.N
        n2 == IF n1.I = 0 THEN [n1 EXCEPT !.I = FIXED_I] ELSE n1
    IN  [c EXCEPT !.N = n2]

\* An equality that compares the two pointers: never equal for two objects.
DeepEqualPointers(a, b) == FALSE

\* An equality that stops at the first level and does not follow N.
DeepEqualShallow(a, b) ==
    IF a = [nil |-> TRUE] \/ b = [nil |-> TRUE] THEN a = b
    ELSE a.Version = b.Version

\* reflect.DeepEqual on two Config interface values: both nil, or both
\* *TestCfg whose pointees are deeply equal (N compared through the pointer).
DeepEqual(a, b) == a = b

\* ------------------------------------------------------------- codec
\* A Marshal that leaves the version out of the document.
MarshalNoVersion(c) ==
    [kind |-> "yaml",
     doc  |-> [version |-> 0,
               n |-> IF c.N.nil THEN [null |-> TRUE, s |-> "", i |-> 0]
                     ELSE [null |-> FALSE, s |-> c.N.S, i |-> c.N.I]]]

\* yaml.Marshal of a *TestCfg: a mapping with the lower-cased field names,
\* a nil N as null.
Marshal(c) ==
    [kind |-> "yaml",
     doc  |-> [version |-> c.Version,
               n |-> IF c.N.nil THEN [null |-> TRUE, s |-> "", i |-> 0]
                     ELSE [null |-> FALSE, s |-> c.N.S, i |-> c.N.I]]]

\* Contents of a file that is absent, that holds no bytes, and that holds
\* bytes which are not YAML for a TestCfg.
NoDoc == [version |-> 0, n |-> [null |-> TRUE, s |-> "", i |-> 0]]
Missing == [kind |-> "missing", doc |-> NoDoc]
Empty == [kind |-> "empty", doc |-> NoDoc]
Malformed == [kind |-> "malformed", doc |-> NoDoc]

\* yaml.Unmarshal(bytes, into): fills `into` from the document; an empty
\* input leaves `into` as it is; bytes that do not parse are an error.
Unmarshal(bytes, into) ==
    CASE bytes.kind = "yaml" ->
            [err |-> Nil,
             cfg |-> TestCfg(bytes.doc.version,
                             IF bytes.doc.n.null THEN NilN
                             ELSE Nested(bytes.doc.n.s, bytes.doc.n.i))]
      [] bytes.kind = "empty" -> [err |-> Nil, cfg |-> into]
      [] OTHER -> [err |-> "decode", cfg |-> into]

\* A copy that fails and leaves the fresh EmptyConfig() as it was: the loop
\* drops copy's error.
copyNothing(orig) == [ref |-> "new", val |-> EmptyConfig]

\* A copy that hands back the pointer it was given.
copyAlias(orig) == [ref |-> "cfg", val |-> orig]

\* deepcopy.Copy(copied, orig) into a fresh EmptyConfig(): a new object with
\* the fields of orig.  Objects of a handler live at two addresses: "cfg" is
\* the object m.cfg points to, "new" the object allocated by the handler.
copy(orig) == [ref |-> "new", val |-> orig]

\* ------------------------------------------------------------- file system
\* The file at m.FilePath: its bytes and its modification time.
File(bytes, mtime) == [bytes |-> bytes, mtime |-> mtime]

\* A modification time is only ever compared with the one m.fileInfo
\* remembers, and only for equality, so two values stand for them all: a
\* write gives the file a time other than the remembered one.
Later(f, fi) == IF fi.nil THEN f.mtime ELSE 1 - fi.mtime

\* m.fileInfo before the first stat: the nil os.FileInfo.
NoFileInfo == [nil |-> TRUE, addr |-> "held", mtime |-> 0]

\* os.Stat: a newly allocated *fileStat describing the file.  Addresses are
\* named by role: "held" is the object m.fileInfo references, "fresh" the
\* one a call has just allocated.
Stat(f) == [nil |-> FALSE, addr |-> "fresh", mtime |-> f.mtime]

\* m.fileInfo = fileInfo: from now on the object is the one m.fileInfo holds.
Hold(fi) == [fi EXCEPT !.addr = "held"]

\* m.fileInfo == fileInfo: equality of two os.FileInfo interface values,
\* i.e. of the two *fileStat pointers they hold.
SameFileInfo(a, b) ==
    IF a.nil \/ b.nil THEN a.nil /\ b.nil ELSE a.addr = b.addr

\* What the file system does to one call of writeToDisk.
WriteOutcomes == {"ok", "openErr", "truncErr", "partialErr", "statErr"}

\* What the file system does to the stat and read of one reloadFromDisk.
ReadOutcomes == {"ok", "statErr", "readErr"}

\* Manager.writeToDisk(cfg): marshal, ioutil.WriteFile, then os.Stat into
\* m.fileInfo.  yaml.Marshal does not fail on a *TestCfg.  A WriteFile that
\* fails leaves the file as it was (the open failed), empty (truncated,
\* nothing written) or cut short; a failing Stat assigns its nil result to
\* m.fileInfo.
writeToDisk(c, f, fi, wo) ==
    CASE wo = "openErr"    -> [err |-> "write", file |-> f, fileInfo |-> fi]
      [] wo = "truncErr"   ->
            [err |-> "write", file |-> File(Empty, Later(f, fi)), fileInfo |-> fi]
      [] wo = "partialErr" ->
            [err |-> "write", file |-> File(Malformed, Later(f, fi)), fileInfo |-> fi]
      [] wo = "statErr"    ->
            [err |-> "stat", file |-> File(Marshal(c), Later(f, fi)),
             fileInfo |-> NoFileInfo]
      [] OTHER ->
            LET g == File(Marshal(c), Later(f, fi))
            IN  [err |-> Nil, file |-> g, fileInfo |-> Hold(Stat(g))]

\* ------------------------------------------------------------- disk protocol
\* The element of a singleton: {e(x) : x \in {v}} names v once, as a local
\* variable of the code does.
The(S) == CHOOSE x \in S : TRUE

\* A save that forgets the increment.
nextVersionSame(currentVersion) == currentVersion

\* The version saveToDiskAndUpdate gives to a changed configuration.
nextVersion(currentVersion) == currentVersion + 1

\* Manager.saveToDiskAndUpdate(updated).  h is the heap of the handler: h.cfg
\* the object m.cfg points to (NilConfig when m.cfg is nil), h.new the object
\* the handler allocated; q is the address of `updated`.  The result names the
\* heap afterwards, p, the address m.cfg points to afterwards, and werr, what
\* writeToDisk returned ("none" when it was not called).
saveToDiskAndUpdate(h, q, f, fi, wo) ==
    LET h1 == [h EXCEPT ![q] = ApplyDefaults(h[q])]
        hasCfg == h1.cfg # NilConfig
        currentVersion == IF hasCfg THEN GetVersion(h1.cfg) ELSE 0
        h2 == IF hasCfg THEN [h1 EXCEPT !.cfg = SetVersion(h1.cfg, 0)] ELSE h1
    IN  The({
        IF DeepEqual(h3.cfg, h3[q])
        THEN [changed |-> FALSE, err |-> Nil,
              h |-> [h3 EXCEPT !.cfg = SetVersion(h3.cfg, currentVersion)],
              p |-> "cfg", file |-> f, fileInfo |-> fi, werr |-> "none"]
        ELSE LET h4 == [h3 EXCEPT ![q] = SetVersion(h3[q], nextVersion(currentVersion))]
             IN  The({
                 IF w.err # Nil
                 THEN [changed |-> FALSE, err |-> w.err, h |-> h4, p |-> "cfg",
                       file |-> w.file, fileInfo |-> w.fileInfo, werr |-> w.err]
                 ELSE [changed |-> TRUE, err |-> Nil, h |-> h4, p |-> q,
                       file |-> w.file, fileInfo |-> w.fileInfo, werr |-> Nil]
                 : w \in {writeToDisk(h4[q], f, fi, wo)} })
        : h3 \in {[h2 EXCEPT ![q] = SetVersion(h2[q], 0)]} })

\* Manager.reloadFromDisk.  ro is what the file system does to the stat and
\* the read, wo what it does to the write of the version-mismatch branch.
\* werr is what that writeToDisk returned ("none" when it was not called);
\* the code drops it.
reloadFromDisk(mcfg, f, fi, ro, wo) ==
    LET same == [changed |-> FALSE, err |-> Nil, cfg |-> mcfg, file |-> f,
                 fileInfo |-> fi, werr |-> "none"]
        fileInfo == Stat(f)
        u == Unmarshal(f.bytes, EmptyConfig)
    IN  IF f.bytes = Missing \/ ro = "statErr" THEN [same EXCEPT !.err = "stat"]
        ELSE IF SameFileInfo(fi, fileInfo) THEN same
        ELSE IF ro = "readErr" THEN [same EXCEPT !.err = "read"]
        ELSE IF u.err # Nil THEN [same EXCEPT !.err = "decode"]
        ELSE IF mcfg # NilConfig /\ GetVersion(mcfg) # GetVersion(u.cfg)
             THEN LET w == writeToDisk(mcfg, f, fi, wo)
                  IN  [same EXCEPT !.err = "versionMismatch", !.file = w.file,
                                   !.fileInfo = w.fileInfo, !.werr = w.err]
        ELSE IF DeepEqual(mcfg, u.cfg) THEN same
        ELSE [same EXCEPT !.changed = TRUE, !.cfg = u.cfg,
                          !.fileInfo = Hold(fileInfo)]

\* Manager.loadFromDisk: reloadFromDisk without its boolean.
loadFromDisk(mcfg, f, fi, ro, wo) == reloadFromDisk(mcfg, f, fi, ro, wo)

\* ------------------------------------------------------------- deltas
\* The functions callers pass to Update.  Each works on tc.N, allocating it
\* when the configuration has none.
withN(c) == IF c.N.nil THEN [c EXCEPT !.N = Nested("", 0)] ELSE c

\* The error a failing delta function returns.
DeltaErr == "deltaErr"

Deltas == {"set4", "nop", "mutfail"}
IncDeltas == {"inc"}

\* delta.deltaFn(updated): the error it returns and what it leaves in the
\* object it was given.
\*   inc      tc.N.I++                           returns nil
\*   set4     tc.N.S = "4"; tc.N.I = 4           returns nil
\*   nop      nothing                            returns nil
\*   mutfail  tc.N.S = "bad"; tc.Version = 9     returns an error
deltaFn(d, c) ==
    CASE d = "inc"  -> [err |-> Nil, val |-> [withN(c) EXCEPT !.N.I = @ + 1]]
      [] d = "set4" -> [err |-> Nil, val |-> [c EXCEPT !.N = Nested("4", 4)]]
      [] d = "nop"  -> [err |-> Nil, val |-> c]
      [] OTHER      -> [err |-> DeltaErr,
                        val |-> [withN(c) EXCEPT !.N.S = "bad", !.Version = 9]]

\* ------------------------------------------------------------- update loop
\* The delta case of processUpdates' select, up to the send on delta.errCh:
\* copy m.cfg, run the delta function on the copy, save.  The result is the
\* error sent to the Update caller, `changed`, m.cfg afterwards, `old` (the
\* object m.cfg pointed to before, as the handler leaves it), and the file.
serviceDelta(mcfg, d, f, fi, wo) ==
    LET updated == copy(mcfg)
        q == updated.ref
        h0 == [[cfg |-> mcfg, new |-> EmptyConfig] EXCEPT ![q] = updated.val]
        dr == deltaFn(d, h0[q])
        h1 == [h0 EXCEPT ![q] = dr.val]
    IN  IF dr.err # Nil
        THEN [err |-> dr.err, changed |-> FALSE, cfg |-> h1.cfg, old |-> h1.cfg,
              file |-> f, fileInfo |-> fi, werr |-> "none"]
        ELSE The({[err |-> s.err, changed |-> s.changed, cfg |-> s.h[s.p],
                   old |-> s.h.cfg, file |-> s.file, fileInfo |-> s.fileInfo,
                   werr |-> s.werr]
                  : s \in {saveToDiskAndUpdate(h1, q, f, fi, wo)} })

\* Manager.Start after its field checks: the initial load, then the save of
\* a fresh defaulted configuration (load failed) or of a copy of the loaded
\* one (load succeeded).
start(f, ro, wo) ==
    LET l == loadFromDisk(NilConfig, f, NoFileInfo, ro, wo)
        fresh == ApplyDefaults(EmptyConfig)
        copied == copy(l.cfg)
        h == IF l.err # Nil THEN [cfg |-> NilConfig, new |-> fresh]
             ELSE [[cfg |-> l.cfg, new |-> EmptyConfig] EXCEPT ![copied.ref] = copied.val]
        q == IF l.err # Nil THEN "new" ELSE copied.ref
    IN  The({[loadErr |-> l.err, err |-> s.err, cfg |-> s.h[s.p], file |-> s.file,
              fileInfo |-> s.fileInfo, werr |-> s.werr]
             : s \in {saveToDiskAndUpdate(h, q, l.file, l.fileInfo, wo)} })

\* ------------------------------------------------------------- state
VARIABLES
    file,       \* the file at m.FilePath
    cfg,        \* the object m.cfg points to, NilConfig while m.cfg is nil
    fileInfo,   \* m.fileInfo
    loopPc,     \* "new": Start not called; "failed": Start returned an error;
                \* "publish": the loop goroutine is blocked in m.nextCfgCh <- m.cfg;
                \* "select": it is blocked in the select of processUpdates
    callers,    \* each Update caller: "idle", or "sending" its delta on deltasCh
    received,   \* what the latest Next call returned, as it was when Next
                \* returned it; NilConfig while no Next call has returned
    startCfg,   \* m.cfg as Start left it (recorded for the counting runs)
    startLoad,  \* how Start's loadFromDisk ended: "none" before Start, then
                \* "loaded" or "failed"
    last,       \* what the step that led here did, and how it ended
    nCalls,     \* Update calls made so far
    nexters,    \* each Next caller: "idle", or "waiting" in <-m.nextCfgCh
    commits,    \* the authoritative configurations produced by Start and by
                \* the events that reported changed, in order, each as it
                \* was when the loop went to send it on nextCfgCh
    taken,      \* the values Next calls have returned, in order, each with its
                \* caller and as it was when Next returned it
    heldNow,    \* what the objects those Next calls returned hold now
    FilePollInterval,           \* m.FilePollInterval, in ticks
    HttpPollInterval,           \* m.HttpPollInterval, in ticks
    RandomizeHttpPollInterval,  \* m.RandomizeHttpPollInterval
    sinceSelect,       \* ticks the timer of time.After(m.FilePollInterval) of
                       \* the current select has been running
    timeToNextHttp,    \* ticks until nextHttp; 0 when it has passed
    sinceEvent         \* ticks since the loop last finished an event or a send

\* The history of the hand-off on nextCfgCh, kept in the runs that study it.
pub == <<nexters, commits, taken, heldNow>>

\* The Manager's intervals and the timers of the loop, kept in the runs that
\* follow time.
clock == <<FilePollInterval, HttpPollInterval, RandomizeHttpPollInterval,
           sinceSelect, timeToNextHttp, sinceEvent>>

vars == <<file, cfg, fileInfo, loopPc, callers, received, startCfg, startLoad,
          last, nCalls, nexters, commits, taken, heldNow, FilePollInterval,
          HttpPollInterval, RandomizeHttpPollInterval, sinceSelect,
          timeToNextHttp, sinceEvent>>

\* The goroutines that call Update.
Callers == {"u1", "u2"}
IncCallers == {"u1", "u2", "u3"}

\* The goroutines that call Next in the runs that study the hand-off.
NextCallers == {"n1", "n2"}

\* The versions other programs put into the file.
ExtVersions == {0, 1}

\* The Nested values other programs write into the file.
ExtN == {NilN, Nested("3", 3)}

\* The configurations other programs write into the file.
ExtCfgs == {TestCfg(v, n) : v \in ExtVersions, n \in ExtN}

\* What other programs leave at m.FilePath.
ExtBytes == {Missing, Empty, Malformed} \cup {Marshal(c) : c \in ExtCfgs}

\* The required fields a Manager can be built without; Start names the one
\* it misses in its error.
MissingFields == {"EmptyConfig must be specified", "FilePath must be specified"}

\* What a step did.  kind: "start", "delta", "poll" or "http" for Start and
\* the three cases of the loop's select, "none" for every other step; err:
\* the error Start returned, Update returned or the poll logged; ro: what the
\* file system did to the stat and read; werr: what writeToDisk returned
\* ("none": it was not called).
Event(kind, err, ro, werr) == [kind |-> kind, err |-> err, ro |-> ro, werr |-> werr]
NoEvent == Event("none", Nil, "ok", "none")

\* A send on the unbuffered nextCfgCh completes with the receive of exactly
\* one of the Next calls waiting on it: the sets of callers one send can
\* return to.
ReceiversBroadcast(waiting) == IF waiting = {} THEN {} ELSE {waiting}

Receivers(waiting) == {{n} : n \in waiting}

\* The outcomes of a write that matter to a handler: all of them when it
\* writes the file, one when it does not.
WritesOr(writes) == IF writes THEN WriteOutcomes ELSE {"ok"}

\* The Manager as constructed by the test, before Start; the file is whatever
\* was at the path.
InitManager ==
    /\ file \in {File(b, 0) : b \in ExtBytes}
    /\ cfg = NilConfig
    /\ fileInfo = NoFileInfo
    /\ loopPc = "new"
    /\ callers = [u \in IncCallers |-> [pc |-> "idle", delta |-> "nop"]]
    /\ received = NilConfig
    /\ startCfg = NilConfig
    /\ startLoad = "none"
    /\ last = NoEvent
    /\ nCalls = 0

\* No Next call has been made and nothing has been sent on nextCfgCh.
InitPub ==
    /\ nexters = [n \in NextCallers |-> "idle"]
    /\ commits = <<>>
    /\ taken = <<>>
    /\ heldNow = <<>>

\* The timers before the loop runs.
InitTimers ==
    /\ sinceSelect = 0
    /\ timeToNextHttp = 0
    /\ sinceEvent = 0

\* Intervals of a Manager in the runs that do not follow time.
InitClock ==
    /\ FilePollInterval = 1
    /\ HttpPollInterval = 1
    /\ RandomizeHttpPollInterval = FALSE
    /\ InitTimers

Init == InitManager /\ InitPub /\ InitClock

\* A Start whose goroutine enters processUpdates without first sending m.cfg.
StartStepNoPublish(ro, wo) ==
    /\ loopPc = "new"
    /\ \E r \in {start(file, ro, wo)} :
           /\ cfg' = r.cfg
           /\ file' = r.file
           /\ fileInfo' = r.fileInfo
           /\ loopPc' = IF r.err = Nil THEN "select" ELSE "failed"
           /\ startLoad' = IF r.loadErr = Nil THEN "loaded" ELSE "failed"
           /\ last' = Event("start", r.err, ro, r.werr)
    /\ UNCHANGED <<callers, received, nCalls>>

\* Manager.Start: on success the loop goroutine is started and blocks
\* offering m.cfg on nextCfgCh.
StartStep(ro, wo) ==
    /\ loopPc = "new"
    /\ \E r \in {start(file, ro, wo)} :
           /\ cfg' = r.cfg
           /\ file' = r.file
           /\ fileInfo' = r.fileInfo
           /\ loopPc' = IF r.err = Nil THEN "publish" ELSE "failed"
           /\ startLoad' = IF r.loadErr = Nil THEN "loaded" ELSE "failed"
           /\ last' = Event("start", r.err, ro, r.werr)
    /\ UNCHANGED <<callers, received, nCalls>>

Start(ro, wo) == StartStep(ro, wo) /\ UNCHANGED startCfg /\ UNCHANGED <<pub, clock>>

\* Start on a file system that does not fail, with its result remembered.
StartRecorded == StartStep("ok", "ok") /\ startCfg' = cfg' /\ UNCHANGED <<pub, clock>>

\* Manager.Start on a Manager built without EmptyConfig or with an empty
\* FilePath: the field checks return an error before anything is touched.
StartInvalid(missing) ==
    /\ loopPc = "new"
    /\ loopPc' = "failed"
    /\ last' = Event("start", missing, "ok", "none")
    /\ UNCHANGED <<file, cfg, fileInfo, callers, received, startCfg, startLoad,
                   nCalls>>
    /\ UNCHANGED <<pub, clock>>

\* Manager.Next: receives the value the loop is offering on nextCfgCh.
ManagerNextStep ==
    /\ loopPc = "publish"
    /\ received' = cfg
    /\ loopPc' = "select"
    /\ last' = NoEvent
    /\ UNCHANGED <<file, cfg, fileInfo, callers, startCfg, startLoad, nCalls>>

ManagerNext == ManagerNextStep /\ UNCHANGED <<pub, clock>>

\* Manager.Update, first half: build the delta and block sending it.
UpdateCallStep(u, d, limit) ==
    /\ loopPc \in {"publish", "select"}
    /\ callers[u].pc = "idle"
    /\ nCalls < limit
    /\ callers' = [callers EXCEPT ![u] = [pc |-> "sending", delta |-> d]]
    /\ nCalls' = nCalls + 1
    /\ last' = NoEvent
    /\ UNCHANGED <<file, cfg, fileInfo, loopPc, received, startCfg, startLoad>>

UpdateCall(u, d, limit) == UpdateCallStep(u, d, limit) /\ UNCHANGED <<pub, clock>>

\* A loop that takes deltas while its send on nextCfgCh is still pending.
ServiceDeltaStepUnblocked(u, wo) ==
    /\ loopPc \in {"publish", "select"}
    /\ callers[u].pc = "sending"
    /\ \E r \in {serviceDelta(cfg, callers[u].delta, file, fileInfo, wo)} :
           /\ cfg' = r.cfg
           /\ file' = r.file
           /\ fileInfo' = r.fileInfo
           /\ loopPc' = IF r.err = Nil /\ r.changed THEN "publish" ELSE loopPc
           /\ last' = Event("delta", r.err, "ok", r.werr)
    /\ callers' = [callers EXCEPT ![u] = [pc |-> "idle", delta |-> "nop"]]
    /\ UNCHANGED <<received, startCfg, startLoad, nCalls>>

\* processUpdates, case delta := <-m.deltasCh: the loop takes the delta of
\* caller u, services it and sends the outcome on its errCh, where u is
\* waiting; Update returns it.
ServiceDeltaStep(u, wo) ==
    /\ loopPc = "select"
    /\ callers[u].pc = "sending"
    /\ \E r \in {serviceDelta(cfg, callers[u].delta, file, fileInfo, wo)} :
           /\ cfg' = r.cfg
           /\ file' = r.file
           /\ fileInfo' = r.fileInfo
           /\ loopPc' = IF r.err = Nil /\ r.changed THEN "publish" ELSE "select"
           /\ last' = Event("delta", r.err, "ok", r.werr)
    /\ callers' = [callers EXCEPT ![u] = [pc |-> "idle", delta |-> "nop"]]
    /\ UNCHANGED <<received, startCfg, startLoad, nCalls>>

ServiceDelta(u, wo) == ServiceDeltaStep(u, wo) /\ UNCHANGED <<pub, clock>>

\* processUpdates, case <-time.After(m.FilePollInterval).
DiskPollStep(ro, wo) ==
    /\ loopPc = "select"
    /\ \E r \in {reloadFromDisk(cfg, file, fileInfo, ro, wo)} :
           /\ cfg' = r.cfg
           /\ file' = r.file
           /\ fileInfo' = r.fileInfo
           /\ loopPc' = IF r.err = Nil /\ r.changed THEN "publish" ELSE "select"
           /\ last' = Event("poll", r.err, ro, r.werr)
    /\ UNCHANGED <<callers, received, startCfg, startLoad, nCalls>>

DiskPoll(ro, wo) == DiskPollStep(ro, wo) /\ UNCHANGED <<pub, clock>>

\* processUpdates, case <-time.After(timeToNextHttp): nothing but the next
\* deadline is set.
HttpPollStep ==
    /\ loopPc = "select"
    /\ last' = Event("http", Nil, "ok", "none")
    /\ UNCHANGED <<file, cfg, fileInfo, loopPc, callers, received, startCfg,
                   startLoad, nCalls>>

HttpPoll == HttpPollStep /\ UNCHANGED <<pub, clock>>

\* Another program replaces, truncates, corrupts or removes the file.
ExternalWriteStep(b) ==
    /\ file' = File(b, Later(file, fileInfo))
    /\ last' = NoEvent
    /\ UNCHANGED <<cfg, fileInfo, loopPc, callers, received, startCfg, startLoad,
                   nCalls>>

ExternalWrite(b) == ExternalWriteStep(b) /\ UNCHANGED <<pub, clock>>

Next ==
    \/ \E ro \in ReadOutcomes, wo \in WriteOutcomes : Start(ro, wo)
    \/ \E missing \in MissingFields : StartInvalid(missing)
    \/ ManagerNext
    \/ \E u \in Callers, d \in Deltas : UpdateCall(u, d, MaxUpdates)
    \/ \E u \in Callers :
          \E wo \in WritesOr(/\ loopPc = "select"
                             /\ serviceDelta(cfg, callers[u].delta, file,
                                             fileInfo, "ok").changed) :
             ServiceDelta(u, wo)
    \/ \E ro \in ReadOutcomes :
          \E wo \in WritesOr(/\ loopPc = "select"
                             /\ reloadFromDisk(cfg, file, fileInfo, ro,
                                               "ok").werr # "none") :
             DiskPoll(ro, wo)
    \/ HttpPoll
    \/ \E b \in ExtBytes : ExternalWrite(b)

Spec == Init /\ [][Next]_vars

\* The Manager with callers whose deltas all increment the counter, on a
\* file that nothing else writes and a file system that does not fail.
NextInc ==
    \/ StartRecorded
    \/ ManagerNext
    \/ \E u \in IncCallers, d \in IncDeltas : UpdateCall(u, d, MaxIncCalls)
    \/ \E u \in IncCallers : ServiceDelta(u, "ok")
    \/ DiskPoll("ok", "ok")
    \/ HttpPoll

SpecInc == Init /\ [][NextInc]_vars

\* The counting runs with their scheduling: a Next call is made for every
\* send the loop blocks in, and a caller blocked sending its delta is
\* received from in the end (senders queue first-in first-out on deltasCh,
\* and a select with a ready channel does not wait for its timers).
SpecLive ==
    /\ SpecInc
    /\ WF_vars(ManagerNext)
    /\ \A u \in IncCallers : SF_vars(ServiceDelta(u, "ok"))

\* ------------------------------------------------------------- hand-off runs
\* Bound on the commits after which other programs stop writing the file.
MaxCommits == 2

\* What the file system does to a write in these runs: it succeeds, or the
\* file cannot be opened.
PubWrites == {"ok", "openErr"}

\* What other programs write in these runs: the file of TestNormal and a
\* file with another version.
PubBytes == {Marshal(TestCfg(1, Nested("3", 3))), Marshal(TestCfg(0, Nested("3", 3)))}

\* The delta functions of these runs.
PubDeltas == {"set4", "nop"}

\* The Next callers blocked in the receive.
Waiting == {n \in NextCallers : nexters[n] = "waiting"}

\* commits after a step of Start or of the loop: a Start that succeeded and
\* an event that reported changed add m.cfg.
Commit(added) == commits' = IF added THEN Append(commits, cfg') ELSE commits

StartPub(ro, wo) ==
    /\ StartStep(ro, wo)
    /\ Commit(loopPc' # "failed")
    /\ UNCHANGED <<startCfg, nexters, taken, heldNow>>
    /\ UNCHANGED clock

\* Manager.Next, first half: block receiving from nextCfgCh.
NextCall(n) ==
    /\ loopPc \in {"publish", "select"}
    /\ nexters[n] = "idle"
    /\ nexters' = [nexters EXCEPT ![n] = "waiting"]
    /\ last' = NoEvent
    /\ UNCHANGED <<file, cfg, fileInfo, loopPc, callers, received, startCfg,
                   startLoad, nCalls, commits, taken, heldNow>>
    /\ UNCHANGED clock

\* The send m.nextCfgCh <- m.cfg completes: the Next calls of `to` return the
\* pointer m.cfg.
NextReturn(to) ==
    /\ ManagerNextStep
    /\ to \in Receivers(Waiting)
    /\ nexters' = [n \in NextCallers |-> IF n \in to THEN "idle" ELSE nexters[n]]
    /\ taken' = Append(taken, [to |-> to, val |-> cfg])
    /\ heldNow' = Append(heldNow, cfg)
    /\ UNCHANGED commits
    /\ UNCHANGED clock

\* The delta case with the history kept: the object m.cfg pointed to when the
\* delta arrived is the one the latest Next call returned.
ServiceDeltaPub(u, wo) ==
    /\ ServiceDeltaStep(u, wo)
    /\ Commit(loopPc' = "publish")
    /\ heldNow' = IF heldNow = <<>> THEN heldNow
                  ELSE [heldNow EXCEPT ![Len(heldNow)] =
                           serviceDelta(cfg, callers[u].delta, file, fileInfo,
                                        wo).old]
    /\ UNCHANGED <<nexters, taken>>
    /\ UNCHANGED clock

\* The disk poll with the history kept: reloadFromDisk writes to no Config
\* object that existed before it.
DiskPollPub(ro, wo) ==
    /\ DiskPollStep(ro, wo)
    /\ Commit(loopPc' = "publish")
    /\ UNCHANGED <<nexters, taken, heldNow>>
    /\ UNCHANGED clock

ExternalWritePub(b) ==
    /\ Len(commits) < MaxCommits
    /\ ExternalWrite(b)

NextPub ==
    \/ \E wo \in PubWrites : StartPub("ok", wo)
    \/ \E n \in NextCallers : NextCall(n)
    \/ \E to \in SUBSET NextCallers : NextReturn(to)
    \/ \E u \in Callers, d \in PubDeltas : UpdateCall(u, d, MaxUpdates)
    \/ \E u \in Callers, wo \in PubWrites : ServiceDeltaPub(u, wo)
    \/ DiskPollPub("ok", "ok")
    \/ HttpPoll
    \/ \E b \in PubBytes : ExternalWritePub(b)

SpecPub == Init /\ [][NextPub]_vars

\* ------------------------------------------------------------- timed runs
\* Largest interval, in ticks, a Manager is built with.
MaxInterval == 3

\* A timer created once, which keeps running across the iterations.
armFilePollOnce(elapsed) == elapsed

\* case <-time.After(m.FilePollInterval): every evaluation of the select
\* creates a new timer, which has run for no time.
armFilePoll(elapsed) == 0

\* Manager.nextHttpPoll: the sleep times it can add to time.Now():
\* HttpPollInterval, or with RandomizeHttpPollInterval half of it plus
\* rand.Int63n(HttpPollInterval).
nextHttpPoll(interval, randomize) ==
    IF randomize THEN {(interval \div 2) + r : r \in 0..(interval - 1)}
    ELSE {interval}

\* A Manager built with both intervals set, on any of the files.
InitTimed ==
    /\ InitManager
    /\ InitPub
    /\ FilePollInterval \in 1..MaxInterval
    /\ HttpPollInterval \in 1..MaxInterval
    /\ RandomizeHttpPollInterval \in BOOLEAN
    /\ InitTimers

\* The loop enters its select: the disk-poll timer starts anew, the deadline
\* of the remote poll stays where it is.
EnterSelect ==
    /\ sinceSelect' = armFilePoll(sinceSelect)
    /\ sinceEvent' = 0
    /\ UNCHANGED <<FilePollInterval, HttpPollInterval, RandomizeHttpPollInterval>>

StartTimed == StartStep("ok", "ok") /\ UNCHANGED <<startCfg, pub, clock>>

\* Next receives; the first receive lets the goroutine enter processUpdates,
\* which sets nextHttp before its loop.
ManagerNextTimed ==
    /\ ManagerNextStep
    /\ EnterSelect
    /\ timeToNextHttp' \in
          IF received = NilConfig
          THEN nextHttpPoll(HttpPollInterval, RandomizeHttpPollInterval)
          ELSE {timeToNextHttp}
    /\ UNCHANGED pub

\* A delta is taken as soon as a caller offers one.
ServiceDeltaTimed(u) ==
    /\ ServiceDeltaStep(u, "ok")
    /\ EnterSelect
    /\ UNCHANGED <<timeToNextHttp, pub>>

\* The disk-poll timer of this select has fired.
DiskPollTimed ==
    /\ sinceSelect >= FilePollInterval
    /\ DiskPollStep("ok", "ok")
    /\ EnterSelect
    /\ UNCHANGED <<timeToNextHttp, pub>>

\* nextHttp has passed; the case sets the next deadline.
HttpPollTimed ==
    /\ timeToNextHttp = 0
    /\ HttpPollStep
    /\ EnterSelect
    /\ timeToNextHttp' \in nextHttpPoll(HttpPollInterval, RandomizeHttpPollInterval)
    /\ UNCHANGED pub

\* One tick passes.  A select with a case that is ready does not wait: time
\* passes in the select only while no caller offers a delta and neither
\* timer has fired.  It passes freely while the loop is blocked sending.
Tick ==
    /\ loopPc \in {"publish", "select"}
    /\ loopPc = "select" =>
          /\ \A u \in Callers : callers[u].pc # "sending"
          /\ sinceSelect < FilePollInterval
          /\ timeToNextHttp > 0
    /\ sinceSelect' = IF loopPc = "select" THEN sinceSelect + 1 ELSE sinceSelect
    /\ sinceEvent' = IF loopPc = "select" THEN sinceEvent + 1 ELSE sinceEvent
    /\ timeToNextHttp' = IF timeToNextHttp > 0 THEN timeToNextHttp - 1 ELSE 0
    /\ last' = NoEvent
    /\ UNCHANGED <<file, cfg, fileInfo, loopPc, callers, received, startCfg,
                   startLoad, nCalls, pub, FilePollInterval, HttpPollInterval,
                   RandomizeHttpPollInterval>>

NextTimed ==
    \/ StartTimed
    \/ ManagerNextTimed
    \/ \E u \in Callers, d \in PubDeltas : UpdateCall(u, d, MaxUpdates)
    \/ \E u \in Callers : ServiceDeltaTimed(u)
    \/ DiskPollTimed
    \/ HttpPollTimed
    \/ \E b \in PubBytes : ExternalWrite(b)
    \/ Tick

SpecTimed == InitTimed /\ [][NextTimed]_vars

\* ------------------------------------------------------------- properties
Running == {"publish", "select"}

\* The Update calls that have returned.
Returned == nCalls - Cardinality({u \in IncCallers : callers[u].pc = "sending"})

\* Comparison ignoring the version: the version is zeroed on both sides.
ContentEqual(a, b) == SetVersion(a, 0) = SetVersion(b, 0)

\* The candidate of an Update with delta d on the authoritative c: the copy
\* after the delta function and the defaulting.
Candidate(d, c) == ApplyDefaults(deltaFn(d, c).val)

\* The step is the loop servicing the delta of caller u.
Serviced(u) ==
    /\ callers[u].pc = "sending"
    /\ callers'[u].pc = "idle"
    /\ last'.kind = "delta"

\* C1: no lost update.  With callers whose deltas each increment the counter
\* and each succeed, the authoritative counter is its value after Start plus
\* the number of Update calls that have returned, and so is the version; in
\* particular once all calls have returned both have advanced by the number
\* of calls.
C1_NoLostUpdate ==
    loopPc \in Running =>
        /\ cfg.N.I = startCfg.N.I + Returned
        /\ cfg.Version = startCfg.Version + Returned

\* C1 witness: every call the bound allows was made, some of them by
\* different callers, and all have returned.
C1_Witness ==
    /\ loopPc = "select"
    /\ nCalls = MaxIncCalls
    /\ Returned = nCalls
    /\ cfg.N.I = startCfg.N.I + nCalls

\* C2: an Update whose delta succeeds, whose defaulted candidate differs in
\* content from the authoritative configuration and whose disk write succeeds
\* commits the candidate with the previous version + 1: the file holds it, it
\* is authoritative, Update returns nil and the loop offers it to Next.
C2_ChangingUpdateCommits ==
    [][\A u \in Callers :
          (/\ Serviced(u)
           /\ deltaFn(callers[u].delta, cfg).err = Nil
           /\ ~ContentEqual(Candidate(callers[u].delta, cfg), cfg)
           /\ last'.werr = Nil)
          => /\ cfg'.Version = cfg.Version + 1
             /\ cfg' = SetVersion(Candidate(callers[u].delta, cfg), cfg.Version + 1)
             /\ file'.bytes = Marshal(cfg')
             /\ last'.err = Nil
             /\ loopPc' = "publish"]_vars

\* C2 witness: the Update of the test (S = "4", I = 4) has just been committed
\* over a configuration with other content.
C2_Witness ==
    /\ last.kind = "delta"
    /\ last.err = Nil
    /\ last.werr = Nil
    /\ loopPc = "publish"
    /\ cfg.N = Nested("4", 4)
    /\ cfg.Version >= 2

\* C3 as claimed: when the write (or encode) inside save-and-update fails,
\* the error goes back to the Update caller and the authoritative
\* configuration, version included, is what it was before the Update.
C3_FailedSaveLeavesCfg ==
    [][\A u \in Callers :
          (Serviced(u) /\ last'.werr \notin {"none", Nil})
          => (last'.err = last'.werr /\ cfg' = cfg)]_vars

\* C4 as claimed: while the loop runs the authoritative version never
\* decreases, and a commit of changed content by an Update raises it.
C4_VersionMonotonic ==
    [][(loopPc \in Running /\ loopPc' \in Running)
       => /\ cfg'.Version >= cfg.Version
          /\ (last'.kind = "delta" /\ last'.werr = Nil)
                => cfg'.Version > cfg.Version]_vars

\* The configuration Start saves when it could not load the file.
DefaultV1 == TestCfg(1, Nested("", FIXED_I))

\* C5: a Start that cannot load the file (missing, unreadable, malformed) and
\* can write it succeeds, leaves a defaulted version-1 configuration on disk
\* and as m.cfg, and the first value Next returns is that configuration.
C5_FreshStart ==
    [][/\ (last'.kind = "start" /\ startLoad' = "failed" /\ last'.werr = Nil)
          => /\ last'.err = Nil
             /\ loopPc' = "publish"
             /\ cfg' = DefaultV1
             /\ ApplyDefaults(cfg') = cfg'
             /\ file'.bytes = Marshal(DefaultV1)
       /\ (startLoad = "failed" /\ received = NilConfig /\ received' # NilConfig)
          => received' = DefaultV1]_vars

\* C5 witness: Start could not load the file and Next has returned its first
\* value.
C5_Witness ==
    /\ startLoad = "failed"
    /\ received = DefaultV1
    /\ loopPc = "select"

\* What yaml.Unmarshal makes of the file.
Decoded(f) == Unmarshal(f.bytes, EmptyConfig)

\* The step is a disk poll that could stat and read a file that decodes.
PolledDecoded ==
    /\ last'.kind = "poll"
    /\ last'.ro = "ok"
    /\ file.bytes # Missing
    /\ Decoded(file).err = Nil

\* C6: a disk poll that finds a file with the authoritative version and other
\* content makes that content authoritative without writing the file or
\* changing the version, and offers it to Next; the Next call that takes the
\* offer returns exactly it.
C6_SameVersionReload ==
    [][/\ (/\ PolledDecoded
           /\ Decoded(file).cfg.Version = cfg.Version
           /\ Decoded(file).cfg # cfg)
          => /\ cfg' = Decoded(file).cfg
             /\ cfg'.Version = cfg.Version
             /\ file' = file
             /\ last'.werr = "none"
             /\ last'.err = Nil
             /\ loopPc' = "publish"
       /\ (loopPc = "publish" /\ loopPc' = "select")
          => (received' = cfg /\ cfg' = cfg /\ file'.bytes = file.bytes)
       /\ loopPc = "publish" => (cfg' = cfg /\ loopPc' \in {"publish", "select"})]_vars

\* C6 witness: the scenario of TestNormal, after the default configuration was
\* delivered: the file was overwritten with version 1, S = "3", I = 3, and a
\* poll has made it authoritative.
C6_Witness ==
    /\ last.kind = "poll"
    /\ loopPc = "publish"
    /\ received = DefaultV1
    /\ cfg = TestCfg(1, Nested("3", 3))

\* C7 as claimed: a disk poll that decodes a file whose version differs from
\* the authoritative one fails with the version-mismatch error, leaves the
\* file holding the authoritative configuration, leaves that configuration
\* as it was and publishes nothing.
C7_ConflictRestoresFile ==
    [][(PolledDecoded /\ Decoded(file).cfg.Version # cfg.Version)
       => /\ last'.err = "versionMismatch"
          /\ file'.bytes = Marshal(cfg')
          /\ cfg' = cfg
          /\ loopPc' = "select"]_vars

\* C7 amended: the same, with the file holding the authoritative
\* configuration afterwards when the rewrite succeeded; a rewrite that failed
\* leaves the file as it was, empty, cut short, or written but not stat-ed.
C7_ConflictRewrites ==
    [][(PolledDecoded /\ Decoded(file).cfg.Version # cfg.Version)
       => /\ last'.err = "versionMismatch"
          /\ last'.werr # "none"
          /\ last'.werr = Nil => file'.bytes = Marshal(cfg')
          /\ last'.werr # Nil =>
                file'.bytes \in {file.bytes, Empty, Malformed, Marshal(cfg')}
          /\ cfg' = cfg
          /\ loopPc' = "select"]_vars

\* C7 witness: a poll has just met another version in the file and put the
\* authoritative configuration back.
C7_Witness ==
    /\ last.kind = "poll"
    /\ last.err = "versionMismatch"
    /\ last.werr = Nil
    /\ cfg.Version >= 1
    /\ file.bytes = Marshal(cfg)

\* C8: an Update whose defaulted candidate is content-equal to the
\* authoritative configuration changes nothing: same configuration and
\* version, no write, same file, nil returned, nothing published.
C8_NoOpSave ==
    [][\A u \in Callers :
          (/\ Serviced(u)
           /\ deltaFn(callers[u].delta, cfg).err = Nil
           /\ ContentEqual(Candidate(callers[u].delta, cfg), cfg))
          => /\ cfg' = cfg
             /\ last'.werr = "none"
             /\ file' = file
             /\ fileInfo' = fileInfo
             /\ last'.err = Nil
             /\ loopPc' = "select"]_vars

\* C8 witness: S = "4", I = 4 was set on a configuration that already had it.
C8_Witness ==
    /\ last.kind = "delta"
    /\ last.err = Nil
    /\ last.werr = "none"
    /\ cfg.N = Nested("4", 4)

\* C9: an Update whose delta function returns an error returns that error;
\* the authoritative configuration and the file are as before even though
\* the delta changed its argument; nothing is published; the other callers
\* are where they were and the loop is ready for them.
C9_DeltaFailure ==
    [][\A u \in Callers :
          (Serviced(u) /\ deltaFn(callers[u].delta, cfg).err # Nil)
          => /\ last'.err = deltaFn(callers[u].delta, cfg).err
             /\ cfg' = cfg
             /\ file' = file
             /\ fileInfo' = fileInfo
             /\ last'.werr = "none"
             /\ loopPc' = "select"
             /\ \A v \in Callers \ {u} : callers'[v] = callers[v]]_vars

\* C9 witness: a delta that changed its argument and failed has been
\* answered while another Update is pending.
C9_Witness ==
    /\ last.kind = "delta"
    /\ last.err = DeltaErr
    /\ \E v \in Callers : callers[v].pc = "sending"

\* The step that led here committed: a save that wrote the file, or a reload
\* that reported changed.
Committed ==
    \/ last.kind \in {"start", "delta"} /\ last.err = Nil /\ last.werr = Nil
    \/ last.kind = "poll" /\ last.err = Nil /\ loopPc = "publish"

\* C10: at the end of every commit the authoritative version is the version
\* the file holds.
C10_CommitVersionOnDisk ==
    Committed =>
        /\ file.bytes # Missing
        /\ Decoded(file).err = Nil
        /\ Decoded(file).cfg.Version = cfg.Version

\* C10 witness: an Update has just committed version 2 or more.
C10_Witness ==
    /\ last.kind = "delta"
    /\ Committed
    /\ cfg.Version >= 2

\* C11 as claimed: whenever Start returns an error no loop is running and the
\* Manager holds no authoritative configuration.
C11_FailedStartLeavesNothing ==
    (last.kind = "start" /\ last.err # Nil) =>
        (loopPc = "failed" /\ cfg = NilConfig)

\* The events of the loop's select.
LoopEvents == {"delta", "poll", "http"}

\* C12: with several Next callers every configuration the loop sends is
\* returned by exactly one Next call: none is returned twice, none is skipped
\* (the loop does not get past a send nobody has received), and a Next call
\* returns only what was sent, in the order it was sent.
C12_SingleSlotHandOff ==
    /\ Len(commits) = Len(taken) + (IF loopPc = "publish" THEN 1 ELSE 0)
    /\ \A k \in 1..Len(taken) :
          /\ Cardinality(taken[k].to) = 1
          /\ taken[k].val = commits[k]

\* C12 witness: both callers have had a Next call return, each a different
\* configuration, while the other was waiting or calling again.
C12_Witness ==
    /\ Len(taken) >= 2
    /\ \E j, k \in 1..Len(taken) :
          taken[j].to = {"n1"} /\ taken[k].to = {"n2"} /\ taken[j].val # taken[k].val
    /\ Waiting # {}
    /\ loopPc = "select"

\* C13: apart from Start's publication the loop publishes after an event
\* exactly when the event reported a change: a save that wrote the file, or
\* a reload that replaced m.cfg.  A publication always carries content other
\* than what was authoritative before; failed events, no-op saves, reloads of
\* a file that holds what is in memory and remote-poll ticks publish nothing.
C13_PublishOnlyOnChange ==
    [][loopPc = "select" =>
          /\ loopPc' = "publish" <=>
                \/ last'.kind = "delta" /\ last'.err = Nil /\ last'.werr = Nil
                \/ last'.kind = "poll" /\ last'.err = Nil /\ cfg' # cfg
          /\ loopPc' = "publish" => ~ContentEqual(cfg', cfg)
          /\ (last'.kind = "delta" /\ ContentEqual(cfg', cfg)) => loopPc' = "select"
          /\ (PolledDecoded /\ Decoded(file).cfg = cfg) => loopPc' = "select"
          /\ last'.err # Nil => loopPc' = "select"
          /\ last'.kind = "http" => loopPc' = "select"
          /\ last'.kind \notin LoopEvents => loopPc' = "select"]_vars

\* C13 witness: a poll that could not decode the file has been serviced and
\* nothing is commits to Next.
C13_Witness ==
    /\ last.kind = "poll"
    /\ last.err = "decode"
    /\ loopPc = "select"
    /\ received # NilConfig

\* C14: the configurations Next calls return are, in order, the
\* configurations committed by Start and by the events that reported changed,
\* each returned as it is authoritative at that moment; the loop admits no
\* event while a commit is not yet handed over, so at most one is pending.
C14_PublicationOrder ==
    [][/\ \A k \in 1..Len(taken') : taken'[k].val = commits'[k]
       /\ Len(commits') - Len(taken') \in {0, 1}
       /\ loopPc' = "select" => Len(taken') = Len(commits')
       /\ last'.kind \in LoopEvents => Len(taken) = Len(commits)
       /\ Len(taken') > Len(taken) =>
             /\ taken'[Len(taken')].val = cfg
             /\ cfg' = cfg
             /\ Len(commits') = Len(taken')
       /\ Len(commits') > Len(commits) =>
             /\ commits' = Append(commits, cfg')
             /\ last'.kind \in {"start", "delta", "poll"}
             /\ last'.err = Nil]_vars

\* C14 witness: Start's configuration, a reload and an Update's commit have
\* been returned by Next in that order.
C14_Witness ==
    /\ Len(taken) = 3
    /\ taken[1].val = DefaultV1
    /\ taken[2].val = TestCfg(1, Nested("3", 3))
    /\ taken[3].val = TestCfg(2, Nested("4", 4))

\* C15: the loop services no delta and runs no poll before a Next call has
\* received the configuration Start left.
C15_InitialPublicationFirst ==
    /\ (last.kind \in LoopEvents => received # NilConfig)
    /\ ((last.kind = "start" /\ last.err = Nil) => loopPc = "publish")
    /\ ((loopPc \in Running /\ received = NilConfig) => loopPc = "publish")

\* C15 witness: an Update is waiting to hand over its delta while the
\* initial configuration has not been taken.
C15_Witness ==
    /\ loopPc = "publish"
    /\ received = NilConfig
    /\ \E u \in Callers : callers[u].pc = "sending"

\* C16 as claimed: a disk poll that finds the file as it was when m.fileInfo
\* was captured treats it as unchanged without reading or decoding it:
\* no error, no write, nothing changed, nothing published.
C16_FingerprintShortCircuit ==
    [][(/\ last'.kind = "poll"
        /\ last'.ro # "statErr"
        /\ file.bytes # Missing
        /\ ~fileInfo.nil
        /\ file.mtime = fileInfo.mtime)
       => /\ last'.err = Nil
          /\ last'.werr = "none"
          /\ file' = file
          /\ cfg' = cfg
          /\ loopPc' = "select"]_vars

\* C17 as claimed: every object a Next call has returned holds, ever after,
\* what it held when it was returned.
C17_DeliveredNeverModified ==
    \A k \in 1..Len(taken) : heldNow[k] = taken[k].val

\* C18: while the loop is blocked sending a configuration on nextCfgCh it
\* services nothing: m.cfg and the file stay as they are and every Update
\* waiting to hand over its delta keeps waiting until a Next call receives;
\* and when every send is received, every Update call returns in the end.
C18_PublicationBlocks ==
    /\ [][loopPc = "publish" =>
             /\ cfg' = cfg
             /\ file' = file
             /\ last'.kind \notin LoopEvents
             /\ loopPc' = "select" => received' = cfg
             /\ loopPc' # "select" =>
                   /\ loopPc' = "publish"
                   /\ \A u \in IncCallers :
                         callers[u].pc = "sending" => callers'[u] = callers[u]]_vars
    /\ \A u \in IncCallers :
          (callers[u].pc = "sending") ~> (callers[u].pc = "idle")

\* C18 witness: an Update has returned although it was made while the loop
\* was blocked sending a committed change, and another is still waiting
\* behind the next send.
C18_Witness ==
    /\ loopPc = "publish"
    /\ last.kind = "delta"
    /\ cfg.Version = startCfg.Version + 2
    /\ \E u \in IncCallers : callers[u].pc = "sending"

\* C19 as claimed: every configuration that is authoritative while the loop
\* runs, and every value Next returns, is a fixed point of ApplyDefaults.
C19_AuthorityDefaulted ==
    /\ loopPc \in Running => ApplyDefaults(cfg) = cfg
    /\ received # NilConfig => ApplyDefaults(received) = received

\* C20: the disk-poll timer starts anew with every iteration of the loop,
\* while the remote-poll deadline is absolute.  So a disk poll is serviced only
\* after a full FilePollInterval in which the loop finished no delta, no
\* remote tick and no send; and with HttpPollInterval below FilePollInterval
\* and no jitter the disk poll is never serviced at all, whatever is written
\* to the file.
C20_DiskPollStarvation ==
    [][ /\ last'.kind = "poll" => sinceEvent >= FilePollInterval
        /\ (~RandomizeHttpPollInterval /\ HttpPollInterval < FilePollInterval)
              => last'.kind # "poll"
        /\ last'.kind \in {"delta", "poll"} => timeToNextHttp' = timeToNextHttp
      ]_vars

\* The remote tick has fired again, with the shorter interval and no jitter,
\* while the file holds another configuration than the manager.
C20_Witness ==
    /\ ~RandomizeHttpPollInterval
    /\ HttpPollInterval < FilePollInterval
    /\ last.kind = "http"
    /\ loopPc = "select"
    /\ received # NilConfig
    /\ file.bytes # Missing
    /\ Decoded(file).err = Nil
    /\ Decoded(file).cfg # cfg
    /\ Decoded(file).cfg.Version > cfg.Version

====
